---- MODULE Spec2Model ----
(***************************************************************************)
(* A model of _DENA/resource/helpers.py: get_deployment, query_tracks,     *)
(* query_adsb, get_logger and get_omni_sources.  The helpers share no      *)
(* state, so each has a specification of its own over its own variables:   *)
(*   SpecOmni    get_omni_sources                                          *)
(*   SpecDeploy  get_deployment                                            *)
(*   SpecQuery   query_tracks and query_adsb                               *)
(*   SpecLogger  get_logger                                                *)
(***************************************************************************)
EXTENDS Integers, Sequences, FiniteSets, TLC

VARIABLES
    \* get_omni_sources
    lower,          \* the lower gain, in quarters of a gain unit (1 = 0.25)
    upper,          \* the upper gain, in quarters of a gain unit
    omni_out,       \* [status, value]: pending, returned (the list), raised
    \* get_deployment
    metadata_file,  \* the rows of the tab-delimited metadata file, as text
    dep_args,       \* [unit, site, year, elevation]
    dep_out,        \* [status, mic]: pending, returned (the Microphone), raised
    \* query_tracks, query_adsb
    mask,           \* the caller's mask: <<>> (None) or <<the GeoDataFrame object>>
    q_call,         \* the arguments of the last query
    q_out,          \* [status, reader, rows] of the last query
    q_calls,        \* the number of queries made
    \* get_logger
    handlers,       \* logger name -> the handlers attached to that logger
    level,          \* logger name -> its level (0: NOTSET)
    gl_calls,       \* logger name -> the number of get_logger calls for it
    gl_call,        \* the last get_logger call: [name, level]
    log_out         \* the last record logged: [name, levelno, written]

omni_vars == <<lower, upper, omni_out>>
dep_vars == <<metadata_file, dep_args, dep_out>>
qry_vars == <<mask, q_call, q_out, q_calls>>
log_vars == <<handlers, level, gl_calls, gl_call, log_out>>

vars == <<omni_vars, dep_vars, qry_vars, log_vars>>

(***************************************************************************)
(* Python helpers                                                          *)
(***************************************************************************)

\* int(x) of the rational n/d (d > 0): truncation towards zero.
PyInt(n, d) == IF n >= 0 THEN n \div d ELSE -((-n) \div d)

Abs(n) == IF n < 0 THEN -n ELSE n

DigitChar(d) == <<"0", "1", "2", "3", "4", "5", "6", "7", "8", "9">>[d + 1]

\* The decimal digits of n >= 0, most significant first.
RECURSIVE Digits(_)
Digits(n) == IF n < 10 THEN <<DigitChar(n)>>
             ELSE Digits(n \div 10) \o <<DigitChar(n % 10)>>

\* int(s) of a text of decimal digits.
DigitVal(c) ==
    CASE c = "0" -> 0 [] c = "1" -> 1 [] c = "2" -> 2 [] c = "3" -> 3 [] c = "4" -> 4
      [] c = "5" -> 5 [] c = "6" -> 6 [] c = "7" -> 7 [] c = "8" -> 8 [] c = "9" -> 9

RECURSIVE DigitsVal(_)
DigitsVal(ds) == IF ds = <<>> THEN 0
                 ELSE 10 * DigitsVal(SubSeq(ds, 1, Len(ds) - 1)) + DigitVal(ds[Len(ds)])

RECURSIVE Zeros(_)
Zeros(k) == IF k <= 0 THEN <<>> ELSE <<"0">> \o Zeros(k - 1)

\* format(i, "0<width>") of an int: sign-aware zero padding; the width is a
\* minimum and counts the sign.
FormatZeroPadded(i, width) ==
    LET ds == Digits(Abs(i))
        sign == IF i < 0 THEN <<"-">> ELSE <<>>
    IN  sign \o Zeros(width - Len(sign) - Len(ds)) \o ds

(***************************************************************************)
(* get_omni_sources(lower, upper)                                          *)
(***************************************************************************)

MinGain == -30
MaxGain == 50

\* How far outside [MinGain, MaxGain] the inputs reach, in quarter units.
GainMargin == 3

Gains == (4 * MinGain - GainMargin) .. (4 * MaxGain + GainMargin)

\* assert -30 <= upper <= 50 and -30 <= lower <= 50 and upper >= lower
AssertBounds(lo, up) ==
    /\ 4 * MinGain <= up /\ up <= 4 * MaxGain
    /\ 4 * MinGain <= lo /\ lo <= 4 * MaxGain
    /\ up >= lo

\* assert upper % .5 == 0
AssertUpperStep(up) == up % 2 = 0

\* assert lower % .5 == 0
AssertLowerStepNone(lo) == TRUE
AssertLowerStep(lo) == lo % 2 = 0

omni_source_dir == <<"ACTIVE_SPACE_DIR", "\\", "data", "\\", "tuning">>

\* range start int(lower*10) and stop int(upper*10+5), in tenths.
RangeStart(lo) == PyInt(lo * 10, 4)
RangeStopExclusive(up) == PyInt(up * 10, 4)
RangeStop(up) == PyInt(up * 10 + 20, 4)

\* range(start, stop, 5) as a sequence.
PyRange5(start, stop) ==
    LET n == IF stop > start THEN (stop - start + 4) \div 5 ELSE 0
    IN  [k \in 1..n |-> start + 5 * (k - 1)]

\* f"{omni_source_dir}\\O_{i:04}.src"
FormatNegative(i) ==
    omni_source_dir \o <<"\\", "O", "_">> \o FormatZeroPadded(i, 4)
                    \o <<".", "s", "r", "c">>

\* f"{omni_source_dir}\\O_+{i:03}.src"
FormatNonNegativeUnsigned(i) ==
    omni_source_dir \o <<"\\", "O", "_">> \o FormatZeroPadded(i, 4)
                    \o <<".", "s", "r", "c">>
FormatNonNegative(i) ==
    omni_source_dir \o <<"\\", "O", "_", "+">> \o FormatZeroPadded(i, 3)
                    \o <<".", "s", "r", "c">>

OmniSourceList(lo, up) ==
    LET r == PyRange5(RangeStart(lo), RangeStop(up))
    IN  [k \in 1..Len(r) |->
            IF r[k] < 0 THEN FormatNegative(r[k]) ELSE FormatNonNegative(r[k])]

get_omni_sources(lo, up) ==
    IF AssertBounds(lo, up) /\ AssertUpperStep(up) /\ AssertLowerStep(lo)
    THEN [status |-> "returned", value |-> OmniSourceList(lo, up)]
    ELSE [status |-> "raised", value |-> <<>>]

OmniInit ==
    /\ lower \in Gains
    /\ upper \in Gains
    /\ omni_out = [status |-> "pending", value |-> <<>>]

\* The helper is not in use: its variables rest.
OmniIdle ==
    /\ lower = 0
    /\ upper = 0
    /\ omni_out = [status |-> "pending", value |-> <<>>]

OmniCall ==
    /\ omni_out.status = "pending"
    /\ omni_out' = get_omni_sources(lower, upper)
    /\ UNCHANGED <<lower, upper>>

(***************************************************************************)
(* Claims about get_omni_sources (checked under SpecOmni)                  *)
(***************************************************************************)

OmniDone == omni_out.status # "pending"

\* The claims' "valid bounds": both in [-30, 50], ordered, multiples of 0.5.
ValidGainPair(lo, up) ==
    /\ 4 * MinGain <= lo /\ lo <= up /\ up <= 4 * MaxGain
    /\ lo % 2 = 0 /\ up % 2 = 0

\* The file name of a path: what follows the directory and its separator.
FileName(p) == SubSeq(p, Len(omni_source_dir) + 2, Len(p))

\* The gain, in tenths, that a path "...\O_<signed digits>.src" encodes.
EncodedTenths(p) ==
    LET n == FileName(p)
        field == SubSeq(n, 3, Len(n) - 4)
    IN  IF field[1] = "-" THEN -DigitsVal(Tail(field))
        ELSE IF field[1] = "+" THEN DigitsVal(Tail(field))
        ELSE DigitsVal(field)

\* C1: for valid bounds the call returns (upper-lower)/0.5 + 1 paths, the k-th
\* (from 0) encoding the gain lower + 0.5*k: strictly increasing, first lower,
\* last upper.
C1_OmniEnumeratesHalfSteps ==
    (OmniDone /\ ValidGainPair(lower, upper)) =>
        LET v == omni_out.value IN
        /\ omni_out.status = "returned"
        /\ 2 * Len(v) = (upper - lower) + 2
        /\ \A k \in 1..Len(v) : 4 * EncodedTenths(v[k]) = 10 * (lower + 2 * (k - 1))
        /\ \A k \in 1..(Len(v) - 1) : EncodedTenths(v[k]) < EncodedTenths(v[k + 1])
        /\ 4 * EncodedTenths(v[1]) = 10 * lower
        /\ 4 * EncodedTenths(v[Len(v)]) = 10 * upper

\* The example of the spec: lower = -5, upper = 5 gives 21 paths.
C1_Witness ==
    /\ lower = -20 /\ upper = 20
    /\ omni_out.status = "returned"
    /\ Len(omni_out.value) = 21

\* C2: bounds out of range, misordered or off the 0.5 step raise the
\* assertion error and return no list.
C2_InvalidBoundsRaise ==
    (OmniDone /\ ~ValidGainPair(lower, upper)) =>
        (omni_out.status = "raised" /\ omni_out.value = <<>>)

\* A lower bound of 0.25 with upper 5: in range, ordered, off the step.
C2_Witness ==
    /\ lower = 1 /\ upper = 20
    /\ omni_out.status = "raised"

\* C10: every returned file name is O_<sign><ddd>.src, <ddd> the absolute gain
\* in tenths on exactly 3 digits, <sign> "+" for gains >= 0 and "-" below, and
\* every path lies in the same tuning directory.
C10_OmniFileNamePattern ==
    (omni_out.status = "returned") =>
        \A k \in 1..Len(omni_out.value) :
            LET p == omni_out.value[k]
                n == FileName(p)
                t == PyInt(lower * 10, 4) + 5 * (k - 1)
                a == Abs(t)
            IN  /\ SubSeq(p, 1, Len(omni_source_dir) + 1) = omni_source_dir \o <<"\\">>
                /\ Len(n) = 10
                /\ n[1] = "O" /\ n[2] = "_"
                /\ n[3] = (IF t >= 0 THEN "+" ELSE "-")
                /\ n[4] = DigitChar(a \div 100)
                /\ n[5] = DigitChar((a \div 10) % 10)
                /\ n[6] = DigitChar(a % 10)
                /\ SubSeq(n, 7, 10) = <<".", "s", "r", "c">>

\* The whole range: O_-300.src first, O_+000.src inside, O_+500.src last.
C10_Witness ==
    /\ lower = 4 * MinGain /\ upper = 4 * MaxGain
    /\ omni_out.status = "returned"
    /\ FileName(omni_out.value[1]) = <<"O", "_", "-", "3", "0", "0", ".", "s", "r", "c">>
    /\ FileName(omni_out.value[61]) = <<"O", "_", "+", "0", "0", "0", ".", "s", "r", "c">>
    /\ FileName(omni_out.value[161]) = <<"O", "_", "+", "5", "0", "0", ".", "s", "r", "c">>

(***************************************************************************)
(* get_deployment(unit, site, year, filename, elevation)                   *)
(***************************************************************************)

\* The most rows a metadata file holds.
MaxRows == 2

Units == {"DENA", "GLBA"}
Years == {2019, 2020}

\* The text of a code cell of the file, and of the site argument.
CodeTexts == {<<"9">>, <<"0", "0", "9">>, <<"0", "0", "0", "9">>, <<"T", "R", "L", "A">>}
SiteArgs == {<<"9">>, <<"0", "0", "9">>, <<"T", "R", "L", "A">>}

\* The i-th line of a file: its position columns tell the lines apart.
FileRow(i, u, c, y) ==
    [unit |-> u, code |-> c, year |-> y,
     lat |-> 60 + i, long |-> -150 - i,
     elevation |-> 500 + i, microphone_height |-> i]

MetadataFiles ==
    UNION {
        {[i \in 1..n |-> FileRow(i, us[i], cs[i], ys[i])] :
            us \in [1..n -> Units], cs \in [1..n -> CodeTexts], ys \in [1..n -> Years]}
        : n \in 0..MaxRows}

IsDigit(c) == c \in {"0", "1", "2", "3", "4", "5", "6", "7", "8", "9"}

IsNumericText(t) == \A k \in 1..Len(t) : IsDigit(t[k])

\* pd.read_csv infers one type per column: a code column whose cells all read
\* as integers holds integers (leading zeros are gone), any other holds the
\* cells' text.
read_csv(file) ==
    LET numeric == \A i \in 1..Len(file) : IsNumericText(file[i].code)
    IN  [i \in 1..Len(file) |->
            [file[i] EXCEPT !.code =
                IF numeric THEN [kind |-> "int", v |-> DigitsVal(file[i].code)]
                ELSE [kind |-> "str", v |-> file[i].code]]]

\* str(s) of a code cell.
PyStr(cell) == IF cell.kind = "int" THEN Digits(cell.v) ELSE cell.v

\* s.zfill(width) of an unsigned text.
ZFill(t, width) == Zeros(width - Len(t)) \o t

\* Line 54: cells whose str() has at most 3 characters become str(s).zfill(3);
\* the others are left as they are.
NormalizeCodeNone(cell) == cell
NormalizeCode(cell) ==
    IF Len(PyStr(cell)) <= 3
    THEN [kind |-> "str", v |-> ZFill(PyStr(cell), 3)]
    ELSE cell

\* The assignment through .loc: an integer column takes the padded texts and
\* keeps its longer integers.
NormalizeCodes(metadata) ==
    [i \in 1..Len(metadata) |->
        [metadata[i] EXCEPT !.code = NormalizeCode(metadata[i].code)]]

\* metadata['code'] == site, site a str: an integer cell never equals it.
CodeEquals(cell, site) == cell.kind = "str" /\ cell.v = site

\* metadata.loc[(unit == ...) & (code == site) & (year == ...)], in file order.
SiteMeta(metadata, unit, site, year) ==
    SelectSeq(metadata,
              LAMBDA r : r.unit = unit /\ CodeEquals(r.code, site) /\ r.year = year)

\* .iat[0] of the selection.
IatLast(site_meta) == site_meta[Len(site_meta)]
Iat0(site_meta) == site_meta[1]

NoMic == [lat |-> 0, lon |-> 0, z |-> 0, name |-> <<>>]

get_deployment(unit, site, year, file, elevation) ==
    LET site_meta == SiteMeta(NormalizeCodes(read_csv(file)), unit, site, year)
    IN  IF site_meta = <<>>
        THEN [status |-> "IndexError", mic |-> NoMic]
        ELSE LET row == Iat0(site_meta)
             IN  [status |-> "returned",
                  mic |-> [lat |-> row.lat,
                           lon |-> row.long,
                           z |-> IF elevation THEN row.elevation
                                 ELSE row.microphone_height,
                           name |-> <<unit>> \o site \o Digits(year)]]

DepPending == [status |-> "pending", mic |-> NoMic]

DepInit ==
    /\ metadata_file \in MetadataFiles
    /\ dep_args \in [unit : Units, site : SiteArgs, year : Years, elevation : BOOLEAN]
    /\ dep_out = DepPending

DepIdle ==
    /\ metadata_file = <<>>
    /\ dep_args = [unit |-> "DENA", site |-> <<"9">>, year |-> 2019, elevation |-> TRUE]
    /\ dep_out = DepPending

DepCall ==
    /\ dep_out.status = "pending"
    /\ dep_out' = get_deployment(dep_args.unit, dep_args.site, dep_args.year,
                                 metadata_file, dep_args.elevation)
    /\ UNCHANGED <<metadata_file, dep_args>>

(***************************************************************************)
(* Claims about get_deployment (checked under SpecDeploy)                  *)
(***************************************************************************)

DepDone == dep_out.status # "pending"

\* The lines of the file with the call's unit and year whose code text is one
\* of `texts`.
LinesWithCode(texts) ==
    {i \in 1..Len(metadata_file) :
        /\ metadata_file[i].unit = dep_args.unit
        /\ metadata_file[i].year = dep_args.year
        /\ metadata_file[i].code \in texts}

\* The position a call reads from line i.
PositionOf(i) ==
    [lat |-> metadata_file[i].lat,
     lon |-> metadata_file[i].long,
     z |-> IF dep_args.elevation THEN metadata_file[i].elevation
           ELSE metadata_file[i].microphone_height]

MicPosition(mic) == [lat |-> mic.lat, lon |-> mic.lon, z |-> mic.z]

ReturnedFrom(i) ==
    dep_out.status = "returned" /\ MicPosition(dep_out.mic) = PositionOf(i)

\* C3 as claimed: with a line whose code is 009 or 9 in the file, site "9"
\* selects the line that site "009" selects and returns the same position.
C3_Original ==
    (DepDone /\ dep_args.site = <<"9">>
             /\ LinesWithCode({<<"9">>, <<"0", "0", "9">>}) # {}) =>
        LET other == get_deployment(dep_args.unit, <<"0", "0", "9">>, dep_args.year,
                                    metadata_file, dep_args.elevation)
        IN  /\ dep_out.status = other.status
            /\ MicPosition(dep_out.mic) = MicPosition(other.mic)

\* C3 amended: it is the file's codes that are padded, not the site argument.
\* Site "009" selects a line of the call's unit and year whose code reads 9
\* (stored as 9 or as 009) whenever the file has one; site "9" matches no line
\* and the call fails with the index fault.
C3_FileCodesPaddedSiteVerbatim ==
    DepDone =>
        /\ (dep_args.site = <<"0", "0", "9">>
              /\ LinesWithCode({<<"9">>, <<"0", "0", "9">>}) # {}) =>
                \E i \in 1..Len(metadata_file) :
                    /\ metadata_file[i].unit = dep_args.unit
                    /\ metadata_file[i].year = dep_args.year
                    /\ IsNumericText(metadata_file[i].code)
                    /\ DigitsVal(metadata_file[i].code) = 9
                    /\ ReturnedFrom(i)
        /\ (dep_args.site = <<"9">>) => dep_out.status = "IndexError"

\* Site "009" finds the only line of the file, stored as 9.
C3_Witness ==
    /\ Len(metadata_file) = 1
    /\ metadata_file[1].code = <<"9">>
    /\ dep_args.site = <<"0", "0", "9">>
    /\ ReturnedFrom(1)

\* The lines that match the call: unit, year, and a code that reads as the
\* site argument once padded.
MatchingLines ==
    {i \in 1..Len(metadata_file) :
        /\ metadata_file[i].unit = dep_args.unit
        /\ metadata_file[i].year = dep_args.year
        /\ CodeEquals(NormalizeCodes(read_csv(metadata_file))[i].code, dep_args.site)}

\* C4 as claimed: a Microphone is returned only when exactly one line matches;
\* with none, and with more than one, the call fails.
C4_Original ==
    DepDone => (dep_out.status = "returned" <=> Cardinality(MatchingLines) = 1)

\* C4 amended: the call fails with the index fault exactly when no line
\* matches; when one or more match it returns the position of the first
\* matching line of the file.
C4_FirstMatchReturned ==
    DepDone =>
        IF MatchingLines = {}
        THEN dep_out.status = "IndexError"
        ELSE ReturnedFrom(CHOOSE i \in MatchingLines : \A j \in MatchingLines : i <= j)

\* Two lines match and the first one's position is returned.
C4_Witness ==
    /\ Cardinality(MatchingLines) = 2
    /\ ReturnedFrom(1)
    /\ ~ReturnedFrom(2)

(***************************************************************************)
(* query_tracks and query_adsb                                             *)
(*                                                                         *)
(* Geometry is one-dimensional: a point is one integer coordinate, a mask  *)
(* row is an interval [lo, hi].  EPSG:4326 coordinates x and EPSG:3338     *)
(* coordinates y are related by y = 2x + 10, so a buffer distance is in    *)
(* EPSG:3338 units and two of them make one EPSG:4326 unit.  Result order  *)
(* and the altitude and hour columns are left out: rows are sets.          *)
(***************************************************************************)

WGS84 == 4326
AkAlbers == 3338
CutoverYear == 2019

\* Mask coordinates range over 0..MaxCoord (EPSG:4326 units).
MaxCoord == 1
\* Buffer distances are 0, 2, .., 2*MaxBufferSteps (EPSG:3338 units).
MaxBufferSteps == 1
\* The most queries a behaviour makes.
MaxCalls == 2

ToAlbers(x) == 2 * x + 10
FromAlbers(y) == (y - 10) \div 2

\* GeoDataFrame.to_crs(epsg): a new frame, the geometry transformed.
to_crs(gdf, epsg) ==
    IF gdf.crs = epsg THEN gdf
    ELSE [gdf EXCEPT
            !.crs = epsg,
            !.geometry =
                [k \in 1..Len(gdf.geometry) |->
                    IF epsg = AkAlbers
                    THEN [lo |-> ToAlbers(gdf.geometry[k].lo),
                          hi |-> ToAlbers(gdf.geometry[k].hi)]
                    ELSE [lo |-> FromAlbers(gdf.geometry[k].lo),
                          hi |-> FromAlbers(gdf.geometry[k].hi)]]]

\* GeoSeries.buffer(distance), row by row.
buffer(gdf, distance) ==
    [gdf EXCEPT !.geometry =
        [k \in 1..Len(gdf.geometry) |->
            [lo |-> gdf.geometry[k].lo - distance,
             hi |-> gdf.geometry[k].hi + distance]]]

\* Lines 98-99 and 158-159: the geometry a buffered mask is given.
BufferedGeometry(gdf, distance) ==
    to_crs(buffer(to_crs(gdf, AkAlbers), distance), WGS84).geometry

\* A point geometry meets a set of intervals; an empty geometry meets nothing.
IntersectsAlways(geom, region) == TRUE
Intersects(geom, region) ==
    /\ geom # <<>>
    /\ \E iv \in region : iv.lo <= geom[1] /\ geom[1] <= iv.hi

\* mask.dissolve(by='dissolve_field'): the union of the rows.
dissolve(gdf) == {gdf.geometry[k] : k \in 1..Len(gdf.geometry)}

\* dissolve(...).squeeze()['geometry']: the dissolved frame has one row, and the
\* columns of the mask but the dissolve key.  With the geometry column alone it
\* is 1 x 1, squeeze() gives the geometry itself and the subscript fails.
SqueezeFails(gdf) == gdf.columns \ {"dissolve_field"} = {"geometry"}

\* "YYYY-mm-dd"
FormatDate(d) ==
    FormatZeroPadded(d.y, 4) \o <<"-">> \o FormatZeroPadded(d.m, 2)
                             \o <<"-">> \o FormatZeroPadded(d.d, 2)

\* int(start_date[:4])
StartYear(date) == DigitsVal(SubSeq(date, 1, 4))

\* An order-preserving day number of a calendar date.
DayNumber(y, m, d) == (y * 12 + m) * 31 + d

\* The day number of a date string "YYYY-mm-dd".
DayKey(date) ==
    DayNumber(StartYear(date), DigitsVal(SubSeq(date, 6, 7)),
              DigitsVal(SubSeq(date, 9, 10)))

\* A date string as a timestamp (midnight); timestamps count half days.
Timestamp(date) == 2 * DayKey(date)

\* A date of the last legacy year and one of the year after.
Dates == {[y |-> 2019, m |-> 6, d |-> 1], [y |-> 2020, m |-> 6, d |-> 1]}

\* Row times: midnight and noon of each date.
Times == {2 * DayNumber(d.y, d.m, d.d) + h : d \in Dates, h \in {0, 1}}

\* A row's geometry: a point <<x>> (EPSG:4326), or the empty geometry <<>>.
Geoms == {<<x>> : x \in -1 .. MaxCoord + 1} \cup {<<>>}

\* The tables hold one row for every time and geometry.
flight_points == {[src |-> "flight_points", TIME |-> t, geometry |-> g] :
                    t \in Times, g \in Geoms}
TxtRows == {[src |-> "txt", TIME |-> t, geometry |-> g] : t \in Times, g \in Geoms}
TsvRows == {[src |-> "TSV", TIME |-> t, geometry |-> g] : t \in Times, g \in Geoms}

\* fp.ak_datetime::date BETWEEN start_date AND end_date, on day numbers.
DateBetween(time, start_day, end_day) ==
    start_day <= time \div 2 /\ time \div 2 <= end_day

\* Line 146: the legacy reader is used.
UseEarlyAdsbStrict(start_date, exclude_early_ADSB) ==
    StartYear(start_date) < CutoverYear /\ exclude_early_ADSB = "False"
UseEarlyAdsb(start_date, exclude_early_ADSB) ==
    StartYear(start_date) <= CutoverYear /\ exclude_early_ADSB = "False"

\* Line 152: (adsb["TIME"] > start_date) & (adsb["TIME"] < end_date), the date
\* strings taken as timestamps.
TimeWithinFromStart(time, start_ts, end_ts) == time >= start_ts /\ time < end_ts
TimeWithin(time, start_ts, end_ts) == time > start_ts /\ time < end_ts

\* .loc[~(geometry.is_empty)]
NonEmpty(rows) == {r \in rows : r.geometry # <<>>}

\* query_tracks: [out, caller], caller the caller's mask object afterwards.
query_tracks(m, start_date, end_date, mask_buffer_distance) ==
    LET start_day == DayKey(start_date)
        end_day == DayKey(end_date)
        in_range == {r \in flight_points : DateBetween(r.TIME, start_day, end_day)}
    IN
    IF m = <<>>
    THEN [out |-> [status |-> "returned", reader |-> "postgis",
                   rows |-> NonEmpty(in_range)],
          caller |-> m]
    ELSE
        LET own == m[1].crs # WGS84     \* the name is rebound to a new frame
            m1 == IF own THEN to_crs(m[1], WGS84) ELSE m[1]
            m2 == [m1 EXCEPT !.columns = @ \cup {"dissolve_field"}]
            m3 == IF mask_buffer_distance # 0
                  THEN [m2 EXCEPT !.geometry = BufferedGeometry(m2, mask_buffer_distance)]
                  ELSE m2
            after == IF own THEN m ELSE <<m3>>
        IN  IF SqueezeFails(m3)
            THEN [out |-> [status |-> "TypeError", reader |-> "postgis", rows |-> {}],
                  caller |-> after]
            ELSE [out |-> [status |-> "returned", reader |-> "postgis",
                           rows |-> NonEmpty({r \in in_range :
                                        Intersects(r.geometry, dissolve(m3))})],
                  caller |-> after]

\* query_adsb: [out, caller].
query_adsb(m, start_date, end_date, mask_buffer_distance, exclude_early_ADSB) ==
    LET early == UseEarlyAdsb(start_date, exclude_early_ADSB)
        start_ts == Timestamp(start_date)
        end_ts == Timestamp(end_date)
        adsb == {r \in (IF early THEN TxtRows ELSE TsvRows) :
                    TimeWithin(r.TIME, start_ts, end_ts)}
        reader == IF early THEN "EarlyAdsb" ELSE "Adsb"
    IN  IF m = <<>>
        THEN [out |-> [status |-> "returned", reader |-> reader, rows |-> NonEmpty(adsb)],
              caller |-> m]
        ELSE
            LET own == m[1].crs # WGS84
                m1 == IF own THEN to_crs(m[1], WGS84) ELSE m[1]
                m2 == IF mask_buffer_distance # 0
                      THEN [m1 EXCEPT !.geometry = BufferedGeometry(m1, mask_buffer_distance)]
                      ELSE m1
                clipped == {r \in adsb : Intersects(r.geometry, dissolve(m2))}
            IN  [out |-> [status |-> "returned", reader |-> reader,
                          rows |-> NonEmpty(clipped)],
                 caller |-> IF own THEN m ELSE <<m2>>]

Intervals == {iv \in [lo : 0..MaxCoord, hi : 0..MaxCoord] : iv.lo <= iv.hi}

\* One polygon, or two apart from each other.
MaskGeometries ==
    {<<iv>> : iv \in Intervals} \cup
    {g \in Intervals \X Intervals : g[1].hi < g[2].lo}

\* The masks a caller holds, in either reference system.
Masks ==
    {to_crs([crs |-> WGS84, geometry |-> g, columns |-> c], e) :
        g \in MaskGeometries, c \in {{"geometry"}, {"geometry", "name"}},
        e \in {WGS84, AkAlbers}}

BufferDistances == {2 * k : k \in 0..MaxBufferSteps}

NoCall == [fn |-> "none", start_date |-> <<>>, end_date |-> <<>>,
           mask_buffer_distance |-> 0, exclude_early_ADSB |-> "False"]

QryInit ==
    /\ mask \in {<<>>} \cup {<<g>> : g \in Masks}
    /\ q_call = NoCall
    /\ q_out = [status |-> "pending", reader |-> "none", rows |-> {}]
    /\ q_calls = 0

QryIdle ==
    /\ mask = <<>>
    /\ q_call = NoCall
    /\ q_out = [status |-> "pending", reader |-> "none", rows |-> {}]
    /\ q_calls = 0

QueryTracks ==
    /\ q_calls < MaxCalls
    /\ \E s \in Dates, e \in Dates, b \in BufferDistances :
        LET r == query_tracks(mask, FormatDate(s), FormatDate(e), b)
        IN  /\ q_call' = [fn |-> "query_tracks", start_date |-> FormatDate(s),
                          end_date |-> FormatDate(e), mask_buffer_distance |-> b,
                          exclude_early_ADSB |-> "False"]
            /\ q_out' = r.out
            /\ mask' = r.caller
    /\ q_calls' = q_calls + 1

QueryAdsb ==
    /\ q_calls < MaxCalls
    /\ \E s \in Dates, e \in Dates, b \in BufferDistances,
          x \in {"False", "True", "None"} :
        LET r == query_adsb(mask, FormatDate(s), FormatDate(e), b, x)
        IN  /\ q_call' = [fn |-> "query_adsb", start_date |-> FormatDate(s),
                          end_date |-> FormatDate(e), mask_buffer_distance |-> b,
                          exclude_early_ADSB |-> x]
            /\ q_out' = r.out
            /\ mask' = r.caller
    /\ q_calls' = q_calls + 1

(***************************************************************************)
(* Claims about query_tracks and query_adsb (checked under SpecQuery)      *)
(***************************************************************************)

\* The date the caller formatted into a date string.
ArgDate(date) == CHOOSE d \in Dates : FormatDate(d) = date

AdsbCalled == q_call.fn = "query_adsb"

\* C5: query_adsb reads with the legacy reader (EarlyAdsb, *.txt) exactly when
\* the year of start_date is <= 2019 and exclude_early_ADSB is False, and with
\* the current reader (Adsb, *.TSV) in every other case.
C5_ReaderByYearAndFlag ==
    AdsbCalled =>
        LET legacy == /\ ArgDate(q_call.start_date).y <= 2019
                      /\ q_call.exclude_early_ADSB = "False"
        IN  /\ q_out.reader = (IF legacy THEN "EarlyAdsb" ELSE "Adsb")
            /\ \A r \in q_out.rows : r.src = (IF legacy THEN "txt" ELSE "TSV")

\* A 2019 start date with the override set: rows of the *.TSV files.
C5_Witness ==
    /\ AdsbCalled
    /\ ArgDate(q_call.start_date).y = 2019
    /\ q_call.exclude_early_ADSB = "True"
    /\ q_out.reader = "Adsb"
    /\ \E r \in q_out.rows : r.src = "TSV"

\* C6: a query leaves the caller's mask object as it was: same reference
\* system, same geometry, same columns.
C6_MaskNeverMutated == [][mask' = mask]_vars

\* The interval of mask row k in EPSG:3338 coordinates.
AlbersInterval(gdf, k) ==
    IF gdf.crs = AkAlbers THEN gdf.geometry[k]
    ELSE [lo |-> 2 * gdf.geometry[k].lo + 10, hi |-> 2 * gdf.geometry[k].hi + 10]

\* The point <<x>> lies within `distance` (EPSG:3338 units) of the mask.
WithinDistanceOfMask(geom, gdf, distance) ==
    /\ geom # <<>>
    /\ \E k \in 1..Len(gdf.geometry) :
        /\ AlbersInterval(gdf, k).lo - distance <= 2 * geom[1] + 10
        /\ 2 * geom[1] + 10 <= AlbersInterval(gdf, k).hi + distance

\* The rows of the date range of a call: the days from start to end for
\* query_tracks, the times strictly between them for query_adsb.
DateFiltered(call, out) ==
    IF call.fn = "query_tracks"
    THEN {r \in flight_points :
            /\ DayKey(call.start_date) <= r.TIME \div 2
            /\ r.TIME \div 2 <= DayKey(call.end_date)}
    ELSE {r \in (IF out.reader = "EarlyAdsb" THEN TxtRows ELSE TsvRows) :
            /\ Timestamp(call.start_date) < r.TIME
            /\ r.TIME < Timestamp(call.end_date)}

\* C7: a query given a mask returns only rows whose geometry meets the mask as
\* it is handed in, widened by the buffer distance when there is one; a query
\* given no mask returns every row of the date range with a geometry.
C7_MaskedRowsIntersectMask ==
    [][(q_calls' = q_calls + 1 /\ q_out'.status = "returned") =>
        IF mask = <<>>
        THEN q_out'.rows = {r \in DateFiltered(q_call', q_out') : r.geometry # <<>>}
        ELSE \A r \in q_out'.rows :
                WithinDistanceOfMask(r.geometry, mask[1], q_call'.mask_buffer_distance)
      ]_vars

\* A mask covering coordinate 0 alone, given in EPSG:3338 and buffered by 2:
\* the point 1, outside the mask and inside the buffer, is returned, the
\* point 2 is not.
C7_Witness ==
    /\ q_calls = 1
    /\ q_out.status = "returned"
    /\ mask # <<>>
    /\ mask[1].crs = AkAlbers
    /\ mask[1].geometry = <<[lo |-> 10, hi |-> 10]>>
    /\ q_call.mask_buffer_distance = 2
    /\ \E r \in q_out.rows : r.geometry = <<1>>
    /\ \A r \in q_out.rows : r.geometry # <<2>>

\* C8: query_adsb keeps a row only if its TIME is strictly after start_date and
\* strictly before end_date; without a mask it returns exactly those rows that
\* have a geometry; with start_date >= end_date it returns no row.
C8_ExclusiveDateRange ==
    (AdsbCalled /\ q_out.status = "returned") =>
        LET from == Timestamp(q_call.start_date)
            to == Timestamp(q_call.end_date)
            table == IF q_out.reader = "EarlyAdsb" THEN TxtRows ELSE TsvRows
        IN  /\ \A r \in q_out.rows : from < r.TIME /\ r.TIME < to
            /\ (mask = <<>>) =>
                  q_out.rows = {r \in table :
                                  r.geometry # <<>> /\ from < r.TIME /\ r.TIME < to}
            /\ (from >= to) => q_out.rows = {}

\* Rows are returned, and the rows at start_date and at end_date are not.
C8_Witness ==
    /\ AdsbCalled
    /\ mask = <<>>
    /\ q_out.rows # {}
    /\ \E r \in TxtRows \cup TsvRows :
        r.TIME = Timestamp(q_call.start_date) /\ r.geometry # <<>>
    /\ \E r \in TxtRows \cup TsvRows :
        r.TIME = Timestamp(q_call.end_date) /\ r.geometry # <<>>
    /\ \A r \in q_out.rows :
        r.TIME # Timestamp(q_call.start_date) /\ r.TIME # Timestamp(q_call.end_date)

(***************************************************************************)
(* get_logger(name, level)                                                 *)
(*                                                                         *)
(* logging.getLogger keeps one logger per name; a dotted name is a child   *)
(* of its prefixes, and a record logged on a logger is handed to the       *)
(* handlers of that logger and, loggers propagating by default, to those   *)
(* of its ancestors.  Every handler writes the record once to _TqdmStream. *)
(***************************************************************************)

\* The most get_logger calls made for one name.
MaxLoggerCalls == 2

\* Logger names, as their dotted components: "a", "a.b", "c".
LoggerNames == {<<"a">>, <<"a", "b">>, <<"c">>}

LevelNames == {"DEBUG", "INFO", "WARNING"}

\* logging's level numbers.
LevelNo(l) == CASE l = "DEBUG" -> 10 [] l = "INFO" -> 20 [] l = "WARNING" -> 30

\* The handler of lines 196-198: a StreamHandler on _TqdmStream with the
\* formatter set.
NewHandler ==
    [stream |-> "_TqdmStream",
     formatter |-> "%(asctime)s - %(name)s - %(levelname)s - %(message)s"]

\* logger.addHandler(handler) with a handler made for the call: appended.
AddHandlerOnce(hs) == IF hs = <<>> THEN <<NewHandler>> ELSE hs
AddHandler(hs) == Append(hs, NewHandler)

\* The handlers a record logged on `name` reaches: those of the logger, then
\* those of each logger named by a shorter prefix.
RECURSIVE CallHandlers(_)
CallHandlers(name) ==
    IF name = <<>> THEN 0
    ELSE (IF name \in LoggerNames THEN Len(handlers[name]) ELSE 0)
            + CallHandlers(SubSeq(name, 1, Len(name) - 1))

\* The number of _TqdmStream.write calls a record of level levelno logged on
\* `name` makes.
Writes(name, levelno) ==
    IF levelno >= level[name] THEN CallHandlers(name) ELSE 0

NoRecord == [name |-> <<>>, levelno |-> 0, written |-> 0]

LogInit ==
    /\ handlers = [n \in LoggerNames |-> <<>>]
    /\ level = [n \in LoggerNames |-> 0]
    /\ gl_calls = [n \in LoggerNames |-> 0]
    /\ gl_call = [name |-> <<>>, level |-> "INFO"]
    /\ log_out = NoRecord

LogIdle == LogInit

GetLogger ==
    /\ \E n \in LoggerNames, l \in LevelNames :
        /\ gl_calls[n] < MaxLoggerCalls
        /\ level' = [level EXCEPT ![n] = LevelNo(l)]
        /\ handlers' = [handlers EXCEPT ![n] = AddHandler(@)]
        /\ gl_calls' = [gl_calls EXCEPT ![n] = @ + 1]
        /\ gl_call' = [name |-> n, level |-> l]
    /\ UNCHANGED log_out

\* The caller logs one record on a logger it got from get_logger.
LogRecord ==
    /\ \E n \in LoggerNames, l \in LevelNames :
        /\ gl_calls[n] > 0
        /\ log_out' = [name |-> n, levelno |-> LevelNo(l),
                       written |-> Writes(n, LevelNo(l))]
    /\ UNCHANGED <<handlers, level, gl_calls, gl_call>>

(***************************************************************************)
(* Claims about get_logger (checked under SpecLogger)                      *)
(***************************************************************************)

\* A record has just been logged.
Logged == log_out' # log_out /\ UNCHANGED <<handlers, level, gl_calls, gl_call>>

\* The loggers a record logged on `name` passes: the logger and its ancestors.
SelfAndAncestors(name) ==
    {a \in LoggerNames : Len(a) <= Len(name) /\ a = SubSeq(name, 1, Len(a))}

RECURSIVE SumCalls(_)
SumCalls(names) ==
    IF names = {} THEN 0
    ELSE LET a == CHOOSE x \in names : TRUE
         IN  gl_calls[a] + SumCalls(names \ {a})

\* get_logger has just been called.
Configured == gl_calls' # gl_calls

\* What C9 and its amendment share: after n calls for a name its logger holds
\* exactly n handlers, the count never decreases, and a call sets the level of
\* its logger and of no other.
HandlersAccumulate ==
    /\ [](\A n \in LoggerNames : Len(handlers[n]) = gl_calls[n])
    /\ [][/\ \A n \in LoggerNames : Len(handlers'[n]) >= Len(handlers[n])
          /\ Configured =>
                /\ level'[gl_call'.name] = LevelNo(gl_call'.level)
                /\ \A n \in LoggerNames \ {gl_call'.name} : level'[n] = level[n]
          /\ ~Configured => level' = level]_vars

\* C9 as claimed: moreover a record at or above the level, logged on a logger
\* that n calls configured, is written n times.
C9_Original ==
    /\ HandlersAccumulate
    /\ [][Logged =>
            LET n == log_out'.name
            IN  log_out'.levelno >= level[n] => log_out'.written = gl_calls[n]]_vars

\* C9 amended: the record is written once per handler of the logger and of
\* each of its ancestors in the dotted-name hierarchy: as many times as
\* get_logger was called for the logger or an ancestor, which is n when no
\* ancestor was configured and more otherwise; below the level it is not
\* written.
C9_WrittenOncePerHandlerInHierarchy ==
    /\ HandlersAccumulate
    /\ [][Logged =>
            LET n == log_out'.name
            IN  /\ log_out'.levelno >= level[n] =>
                    /\ log_out'.written = SumCalls(SelfAndAncestors(n))
                    /\ log_out'.written >= gl_calls[n]
                    /\ (\A a \in SelfAndAncestors(n) \ {n} : gl_calls[a] = 0) =>
                            log_out'.written = gl_calls[n]
                /\ log_out'.levelno < level[n] => log_out'.written = 0]_vars

\* Two calls for "a.b" interleaved with one for "a": the logger "a.b" holds two
\* handlers and a record logged on it is written three times.
C9_Witness ==
    /\ gl_calls[<<"a", "b">>] = 2
    /\ gl_calls[<<"a">>] = 1
    /\ Len(handlers[<<"a", "b">>]) = 2
    /\ log_out.name = <<"a", "b">>
    /\ log_out.written = 3

(***************************************************************************)
(* Specifications                                                          *)
(***************************************************************************)

OmniNext == OmniCall /\ UNCHANGED <<dep_vars, qry_vars, log_vars>>

InitOmni == OmniInit /\ DepIdle /\ QryIdle /\ LogIdle

SpecOmni == InitOmni /\ [][OmniNext]_vars

DepNext == DepCall /\ UNCHANGED <<omni_vars, qry_vars, log_vars>>

InitDeploy == DepInit /\ OmniIdle /\ QryIdle /\ LogIdle

SpecDeploy == InitDeploy /\ [][DepNext]_vars

QryNext ==
    \/ QueryTracks /\ UNCHANGED <<omni_vars, dep_vars, log_vars>>
    \/ QueryAdsb /\ UNCHANGED <<omni_vars, dep_vars, log_vars>>

InitQuery == QryInit /\ OmniIdle /\ DepIdle /\ LogIdle

SpecQuery == InitQuery /\ [][QryNext]_vars

LogNext ==
    \/ GetLogger /\ UNCHANGED <<omni_vars, dep_vars, qry_vars>>
    \/ LogRecord /\ UNCHANGED <<omni_vars, dep_vars, qry_vars>>

InitLogger == LogInit /\ OmniIdle /\ DepIdle /\ QryIdle

SpecLogger == InitLogger /\ [][LogNext]_vars

====
